---- MODULE Spec2Model ----
(***************************************************************************)
(* Model of the Kafka source of src/sources/kafka.rs: create_consumer      *)
(* builds the client options and the subscribed consumer, kafka_source     *)
(* returns the ingestion future                                            *)
(*   consumer.stream().take_until(shutdown).then(map+store).for_each(send) *)
(* whose combinators are modelled by the slot each of them owns:           *)
(* Then.future (thenFut) and ForEach.future (forEachFut).                  *)
(***************************************************************************)
EXTENDS Integers, Sequences, FiniteSets, TLC

\* ---------------------------------------------------------------- bounds
MaxMsgs == 2            \* items the consumer stream yields in one run
NumPartitions == 2      \* partitions of the subscribed topic

\* ------------------------------------------------------- Option<T> values
None == <<>>
Some(x) == <<x>>
IsSome(o) == o # <<>>
Unwrap(o) == o[1]

Partitions == 0 .. (NumPartitions - 1)

\* stored position of a partition for which store_offset never succeeded
NoOffset == -1

\* ------------------------------------------------------------ the config
default_commit_interval_ms == 5000

default_auto_offset_reset == "largest"

default_key_field == "message_key"

default_topic_key == "topic"

default_partition_key == "partition"

default_offset_key == "offset"

\* make_config() of the unit tests
make_config ==
  [ bootstrap_servers  |-> "localhost:9092",
    group_id           |-> "group-id",
    auto_offset_reset  |-> "earliest",
    session_timeout_ms |-> 10000,
    socket_timeout_ms  |-> 60000,
    fetch_wait_max_ms  |-> 100,
    commit_interval_ms |-> default_commit_interval_ms,
    key_field          |-> default_key_field,
    topic_key          |-> default_topic_key,
    partition_key      |-> default_partition_key,
    offset_key         |-> default_offset_key,
    librdkafka_options |-> None,
    auth               |-> "none" ]

\* values of auto_offset_reset the source uses: the default, the two of the
\* tests that build a consumer, and the one the test expects to be rejected
AutoOffsetResetValues ==
  { default_auto_offset_reset, "earliest", "incorrect-auto-offset-reset" }

\* auto.offset.reset values the client library accepts
ValidAutoOffsetReset == { "largest", "earliest", "beginning" }

CommitIntervals == { default_commit_interval_ms, 1000 }

\* librdkafka_options: Option<HashMap<String, String>>
OverrideMaps ==
  { [k \in {"client.id"} |-> "custom"],
    [k \in {"enable.auto.offset.store"} |-> "true"],
    [k \in {"enable.auto.commit"} |-> "false"],
    [k \in {"auto.commit.interval.ms"} |-> "1"],
    [k \in {"auto.offset.reset"} |-> "earliest"],
    [k \in {"security.protocol"} |-> "ssl"],
    [k \in {"queued.min.messages"} |-> "1"],
    [k \in {"client.id", "security.protocol"} |->
       IF k = "client.id" THEN "custom" ELSE "ssl"] }

LibrdkafkaOptions == { None } \cup { Some(m) : m \in OverrideMaps }

\* KafkaAuthConfig, opaque to this file: no authentication, SASL, and a
\* setting that apply() rejects
AuthSettings == { "none", "sasl", "rejected" }

Configs ==
  { [ make_config EXCEPT !.auto_offset_reset = r,
                         !.commit_interval_ms = c,
                         !.librdkafka_options = o,
                         !.auth = a ] :
      r \in AutoOffsetResetValues, c \in CommitIntervals,
      o \in LibrdkafkaOptions, a \in AuthSettings }

\* ClientConfig::set
Set(conf, key, value) ==
  [ k \in (DOMAIN conf) \cup {key} |-> IF k = key THEN value ELSE conf[k] ]

\* KafkaAuthConfig::apply: Err for a rejected setting, else the options
\* with the security protocol set
AuthApply(auth, conf) ==
  IF auth = "rejected" THEN None
  ELSE Some(Set(conf, "security.protocol",
                IF auth = "sasl" THEN "sasl_plaintext" ELSE "plaintext"))

OffsetStoreOptionLeftOn == "true"

\* the value create_consumer gives enable.auto.offset.store, line 255
OffsetStoreOption == "false"

\* the chain of set() calls of create_consumer, lines 241-256
DefaultOptions(config) ==
  LET c0  == [k \in {} |-> ""]
      c1  == Set(c0, "group.id", config.group_id)
      c2  == Set(c1, "bootstrap.servers", config.bootstrap_servers)
      c3  == Set(c2, "auto.offset.reset", config.auto_offset_reset)
      c4  == Set(c3, "session.timeout.ms", ToString(config.session_timeout_ms))
      c5  == Set(c4, "socket.timeout.ms", ToString(config.socket_timeout_ms))
      c6  == Set(c5, "fetch.wait.max.ms", ToString(config.fetch_wait_max_ms))
      c7  == Set(c6, "enable.partition.eof", "false")
      c8  == Set(c7, "enable.auto.commit", "true")
      c9  == Set(c8, "auto.commit.interval.ms",
                 ToString(config.commit_interval_ms))
      c10 == Set(c9, "enable.auto.offset.store", OffsetStoreOption)
  IN  Set(c10, "client.id", "vector")

\* the loop over librdkafka_options, lines 260-264
ApplyOverrides(options, conf) ==
  IF IsSome(options)
  THEN LET m == Unwrap(options)
       IN  [ k \in (DOMAIN conf) \cup (DOMAIN m) |->
               IF k \in DOMAIN m THEN m[k] ELSE conf[k] ]
  ELSE conf

ClientOptionsOverridesFirst(config) ==
  AuthApply(config.auth,
            ApplyOverrides(config.librdkafka_options, DefaultOptions(config)))

\* the client-option mapping create() is called with; None when
\* auth.apply fails (line 258)
ClientOptions(config) ==
  LET authed == AuthApply(config.auth, DefaultOptions(config))
  IN  IF IsSome(authed)
      THEN Some(ApplyOverrides(config.librdkafka_options, Unwrap(authed)))
      ELSE None

\* client_config.create(): the library rejects an option value it does not
\* know
CreateOkUnvalidated(conf) == TRUE

CreateOk(conf) == conf["auto.offset.reset"] \in ValidAutoOffsetReset

\* ------------------------------------------------------ the raw messages
\* payload, key and broker timestamp of a message: the message of the
\* integration test, a tombstone (no payload), and a message with neither
\* key nor timestamp
TestTimestamp == 1000

\* payloads and keys are byte strings: "msg" and "key" in ASCII
MyMessage == << 109, 115, 103 >>

MyKey == << 107, 101, 121 >>

MessageShapes ==
  { [ payload |-> Some(MyMessage), key |-> Some(MyKey),
      timestamp |-> Some(TestTimestamp) ],
    [ payload |-> None, key |-> Some(MyKey),
      timestamp |-> Some(TestTimestamp) ],
    [ payload |-> Some(MyMessage), key |-> None, timestamp |-> None ] }

\* "my-topic" in ASCII
TestTopic == << 109, 121, 45, 116, 111, 112, 105, 99 >>

\* an item of consumer.stream(): Err(KafkaError) or Ok(BorrowedMessage)
ErrItem == [ kind |-> "Err" ]

OkItem(shape, partition, offset) ==
  [ kind |-> "Ok", topic |-> TestTopic, partition |-> partition,
    offset |-> offset, payload |-> shape.payload, key |-> shape.key,
    timestamp |-> shape.timestamp ]

\* the offset the broker gives the next message of a partition: the
\* messages of a partition arrive in increasing offset order
NextOffset(items, p) ==
  Cardinality({ i \in DOMAIN items :
                  items[i].kind = "Ok" /\ items[i].partition = p })

StreamItems(items) ==
  { ErrItem } \cup
  { OkItem(s, p, NextOffset(items, p)) : s \in MessageShapes, p \in Partitions }

\* --------------------------------------------------------- the log event
\* log_schema() field names
message_key == "message"

timestamp_key == "timestamp"

source_type_key == "source_type"

\* Value variants
Bytes(b) == << "Bytes", b >>
Integer(n) == << "Integer", n >>
Timestamp(ms) == << "Timestamp", ms >>
Null == << "Null" >>

\* Bytes::from("kafka"), line 195, in ASCII
SourceType == << 107, 97, 102, 107, 97 >>

\* LogEvent::insert
Insert(log, field, value) ==
  [ f \in (DOMAIN log) \cup {field} |-> IF f = field THEN value ELSE log[f] ]

\* the reading of Utc::now at mapping time
Clock == { 2000 }

\* the milliseconds chrono can represent as a calendar time (years
\* -262144 to 262143), scaled down to the integers of the model
ChronoMinMillis == -100000

ChronoMaxMillis == 100000

\* Utc.timestamp_millis_opt(millis).latest(), line 188: None outside the
\* range of chrono
TimestampMillisOpt(millis) ==
  IF ChronoMinMillis <= millis /\ millis <= ChronoMaxMillis
  THEN Some(millis)
  ELSE None

\* msg.timestamp().to_millis().and_then(..), lines 185-188
BrokerTimestamp(msg) ==
  IF IsSome(msg.timestamp) THEN TimestampMillisOpt(Unwrap(msg.timestamp))
  ELSE None

ResolveTimestampAlwaysNow(msg, now) == now

\* .unwrap_or_else(Utc::now), line 189
ResolveTimestamp(msg, now) ==
  IF IsSome(BrokerTimestamp(msg)) THEN Unwrap(BrokerTimestamp(msg)) ELSE now

\* a byte that is no UTF-8 on its own, and the encoding of U+FFFD
InvalidByte == 255

ReplacementCharacter == << 239, 191, 189 >>

\* String::from_utf8_lossy(key).to_string(), line 200, on ASCII bytes and
\* lone invalid bytes: every invalid byte becomes U+FFFD
RECURSIVE FromUtf8Lossy(_)
FromUtf8Lossy(bytes) ==
  IF bytes = << >> THEN << >>
  ELSE (IF bytes[1] < 128 THEN << bytes[1] >> ELSE ReplacementCharacter)
       \o FromUtf8Lossy(Tail(bytes))

InsertKeyIfPresent(log, field, key) ==
  IF IsSome(key)
  THEN [ f \in (DOMAIN log) \cup {field} |->
           IF f = field THEN << "Bytes", FromUtf8Lossy(Unwrap(key)) >>
           ELSE log[f] ]
  ELSE log

\* log.insert(key_field, msg_key), lines 198-202: the decoded key, or
\* Value::Null for a message without key
InsertKey(log, field, key) ==
  Insert(log, field,
         IF IsSome(key) THEN Bytes(FromUtf8Lossy(Unwrap(key))) ELSE Null)

\* the event built from a message with a payload, lines 176-208
BuildEvent(cfg, msg, now) ==
  LET l0 == [f \in {} |-> Null]
      l1 == Insert(l0, message_key, Bytes(Unwrap(msg.payload)))
      l2 == Insert(l1, timestamp_key, Timestamp(ResolveTimestamp(msg, now)))
      l3 == Insert(l2, source_type_key, Bytes(SourceType))
      l4 == InsertKey(l3, cfg.key_field, msg.key)
      l5 == Insert(l4, cfg.topic_key, Bytes(msg.topic))
      l6 == Insert(l5, cfg.partition_key, Integer(msg.partition))
  IN  Insert(l6, cfg.offset_key, Integer(msg.offset))

\* ------------------------------------------------------------- the state
VARIABLES
  config,          \* the KafkaSourceConfig kafka_source is called with
  clientConfig,    \* Option: the ClientConfig create() was called with
  pc,              \* "init", "failed", "created", "running", "done"
  result,          \* of kafka_source, then of the source future
  shutdown,        \* the ShutdownSignal has resolved
  streamEnded,     \* consumer.stream() has returned None
  pulled,          \* the items consumer.stream() has yielded, in order
  thenFut,         \* Then.future: the pending map+store future
  forEachFut,      \* ForEach.future: the pending for_each future
  stored,          \* per partition, the offset last stored by store_offset
  committed,       \* per partition, the position flushed to the broker
  sent,            \* the events the Pipeline has accepted, in order
  trace,           \* the internal events and calls, in order
  inFlightAtShutdown  \* items pulled when the signal resolved, and whether
                      \* one of them was in flight

vars == << config, clientConfig, pc, result, shutdown, streamEnded, pulled,
           thenFut, forEachFut, stored, committed, sent, trace,
           inFlightAtShutdown >>

buildVars == << config, clientConfig >>
envVars == << shutdown, inFlightAtShutdown >>
loopVars == << pulled, thenFut, forEachFut, stored, sent, trace >>

\* the configurations the ingestion loop is explored under: make_config()
\* and its variations with a rejected offset-reset policy, a rejected
\* authentication setting, and the periodic commit switched off by an
\* override
LoopConfigs ==
  { make_config,
    [ make_config EXCEPT !.auto_offset_reset = "incorrect-auto-offset-reset" ],
    [ make_config EXCEPT !.auth = "rejected" ],
    [ make_config EXCEPT !.librdkafka_options =
        Some([k \in {"enable.auto.commit"} |-> "false"]) ] }

InitWith(configs) ==
  /\ config \in configs
  /\ clientConfig = None
  /\ pc = "init"
  /\ result = "none"
  /\ shutdown = FALSE
  /\ streamEnded = FALSE
  /\ pulled = << >>
  /\ thenFut = None
  /\ forEachFut = None
  /\ stored = [p \in Partitions |-> NoOffset]
  /\ committed = [p \in Partitions |-> NoOffset]
  /\ sent = << >>
  /\ trace = << >>
  /\ inFlightAtShutdown = None

Init == InitWith(LoopConfigs)

\* every configuration, for the claims about create_consumer alone
InitBuild == InitWith(Configs)

\* ------------------------------------------------------- create_consumer
\* kafka_source up to the Ok(Box::pin(..)): create_consumer(config)?
CreateConsumer ==
  /\ pc = "init"
  /\ LET opts == ClientOptions(config)
     IN  IF ~ IsSome(opts)
         THEN /\ clientConfig' = None
              /\ pc' = "failed"
              /\ result' = "AuthError"
         ELSE /\ clientConfig' = opts
              /\ IF ~ CreateOk(Unwrap(opts))
                 THEN pc' = "failed" /\ result' = "KafkaCreateError"
                 ELSE \E subscribed \in BOOLEAN :
                        IF subscribed
                        THEN pc' = "created" /\ result' = "Ok"
                        ELSE pc' = "failed" /\ result' = "KafkaSubscribeError"
  /\ UNCHANGED << config, streamEnded, committed >>
  /\ UNCHANGED envVars
  /\ UNCHANGED loopVars

\* the topology polls the returned future for the first time
RunSource ==
  /\ pc = "created"
  /\ pc' = "running"
  /\ result' = "pending"
  /\ UNCHANGED << streamEnded, committed >>
  /\ UNCHANGED buildVars
  /\ UNCHANGED envVars
  /\ UNCHANGED loopVars

\* ---------------------------------------------------- the ingestion loop
Ev(name, m) == [ ev |-> name, m |-> m ]

\* the call of Utc::now made for message m, only when the broker
\* timestamp gives no calendar time (unwrap_or_else, line 189)
ClockReads(msg, m, now) ==
  IF IsSome(BrokerTimestamp(msg)) THEN << >>
  ELSE << [ ev |-> "Utc::now", m |-> m, now |-> now ] >>

ThenReadyAlways == TRUE

\* Then::poll_next polls the inner stream only while it holds no future
ThenReady == thenFut = None

ForEachReadyAlways == TRUE

\* ForEach::poll polls its stream only while it holds no future
ForEachReady == forEachFut = None

TakeUntilOpenAlways == TRUE

\* TakeUntil::poll_next polls the signal first and passes the poll on to
\* the consumer stream only while the signal is unresolved, line 153
TakeUntilOpen == ~ shutdown

SkipEventsAsFailure(m) == << Ev("KafkaEventReceived", m), Ev("KafkaEventFailed", m) >>

\* what a message without payload emits before it is skipped, lines
\* 168-173
SkipEvents(m) == << Ev("KafkaEventReceived", m) >>

StoreFailedItemForwarded(event) == event

\* the item of a message whose store_offset failed: the ? of line 212
\* returns Err(()) and the event is dropped
StoreFailedItem(event) == None

AfterSendRetry(f, ok) == IF ok THEN None ELSE Some([ f EXCEPT !.sending = FALSE ])

\* ForEach.future once out.send(item).await has returned, lines 229-233:
\* the future is complete whatever the outcome
AfterSend(f, ok) == None

ErrEventsWithReceived(m) == << Ev("KafkaEventReceived", m), Ev("KafkaEventFailed", m) >>

\* what a transport error emits, lines 163-165
ErrEvents(m) == << Ev("KafkaEventFailed", m) >>

AfterStreamEndWaits == "running"

\* the future once the stream is over: for_each completes and line 236
\* returns
AfterStreamEnd == "done"

StoredAfterNextOffset(positions, msg) ==
  [ positions EXCEPT ![msg.partition] = msg.offset + 1 ]

\* the stored positions after store_offset(&msg) succeeded, line 210
StoredAfter(positions, msg) ==
  [ positions EXCEPT ![msg.partition] = msg.offset ]

ForEachOnErrStops == "done"

\* the loop after the for_each closure saw an Err(()) item, lines 228-232:
\* nothing is done and the loop goes on
ForEachOnErr == "running"

\* take_until(shutdown): the signal is polled before the stream, and once
\* it has resolved the stream is over; for_each then completes and the
\* future returns Ok(()), line 236
TakeUntilShutdown ==
  /\ pc = "running"
  /\ ForEachReady /\ ThenReady
  /\ shutdown
  /\ pc' = "done"
  /\ result' = "Ok"
  /\ UNCHANGED << streamEnded, committed >>
  /\ UNCHANGED buildVars
  /\ UNCHANGED envVars
  /\ UNCHANGED loopVars

\* consumer.stream() returns None
StreamEnd ==
  /\ pc = "running"
  /\ ForEachReady /\ ThenReady
  /\ TakeUntilOpen
  /\ streamEnded' = TRUE
  /\ pc' = AfterStreamEnd
  /\ result' = "Ok"
  /\ UNCHANGED committed
  /\ UNCHANGED buildVars
  /\ UNCHANGED envVars
  /\ UNCHANGED loopVars

\* consumer.stream() yields an item: Then creates the future of line 161
Pull ==
  /\ pc = "running"
  /\ ForEachReady /\ ThenReady
  /\ TakeUntilOpen
  /\ Len(pulled) < MaxMsgs
  /\ \E item \in StreamItems(pulled) :
       /\ pulled' = Append(pulled, item)
       /\ thenFut' = Some([ m |-> Len(pulled) + 1, event |-> None ])
  /\ UNCHANGED << pc, result, streamEnded, committed, forEachFut, stored,
                  sent, trace >>
  /\ UNCHANGED buildVars
  /\ UNCHANGED envVars

\* the match of lines 162-208: a transport error and a message without
\* payload complete the future with Err(()), a message with a payload
\* gets its event built
HandleMessage ==
  /\ pc = "running"
  /\ IsSome(thenFut)
  /\ ~ IsSome(Unwrap(thenFut).event)
  /\ LET m   == Unwrap(thenFut).m
         msg == pulled[m]
     IN  IF msg.kind = "Err"
         THEN /\ trace' = trace \o ErrEvents(m)
              /\ thenFut' = None
              /\ forEachFut' = Some([ m |-> m, item |-> None, sending |-> FALSE ])
         ELSE IF ~ IsSome(msg.payload)
         THEN /\ trace' = trace \o SkipEvents(m)
              /\ thenFut' = None
              /\ forEachFut' = Some([ m |-> m, item |-> None, sending |-> FALSE ])
         ELSE \E now \in Clock :
              /\ trace' = Append(trace, Ev("KafkaEventReceived", m))
                             \o ClockReads(msg, m, now)
              /\ thenFut' = Some([ m |-> m,
                                   event |-> Some(BuildEvent(config, msg, now)) ])
              /\ forEachFut' = forEachFut
  /\ UNCHANGED << pc, result, streamEnded, committed, pulled, stored, sent >>
  /\ UNCHANGED buildVars
  /\ UNCHANGED envVars

\* consumer.store_offset(&msg).map_err(..)?, lines 210-214
StoreOffset ==
  /\ pc = "running"
  /\ IsSome(thenFut)
  /\ IsSome(Unwrap(thenFut).event)
  /\ LET m   == Unwrap(thenFut).m
         msg == pulled[m]
     IN  \E ok \in BOOLEAN :
           IF ok
           THEN /\ stored' = StoredAfter(stored, msg)
                /\ trace' = Append(trace, Ev("store_offset", m))
                /\ forEachFut' = Some([ m |-> m, item |-> Unwrap(thenFut).event,
                                        sending |-> FALSE ])
           ELSE /\ stored' = stored
                /\ trace' = trace \o << Ev("store_offset_failed", m),
                                        Ev("KafkaOffsetUpdateFailed", m) >>
                /\ forEachFut' =
                     Some([ m |-> m,
                            item |-> StoreFailedItem(Unwrap(thenFut).event),
                            sending |-> FALSE ])
  /\ thenFut' = None
  /\ UNCHANGED << pc, result, streamEnded, committed, pulled, sent >>
  /\ UNCHANGED buildVars
  /\ UNCHANGED envVars

\* the closure of for_each, lines 225-229: nothing for Err(()), else
\* out.send(item) is started
ForEachItem ==
  /\ pc = "running"
  /\ IsSome(forEachFut)
  /\ ~ Unwrap(forEachFut).sending
  /\ LET f == Unwrap(forEachFut)
     IN  IF IsSome(f.item)
         THEN /\ forEachFut' = Some([ f EXCEPT !.sending = TRUE ])
              /\ trace' = Append(trace, Ev("send", f.m))
              /\ pc' = pc
         ELSE /\ forEachFut' = None
              /\ trace' = trace
              /\ pc' = ForEachOnErr
  /\ UNCHANGED << result, streamEnded, committed, pulled, thenFut,
                  stored, sent >>
  /\ UNCHANGED buildVars
  /\ UNCHANGED envVars

\* out.send(item).await returns, lines 229-231: the pipeline took the
\* event, or the error is logged
SendComplete ==
  /\ pc = "running"
  /\ IsSome(forEachFut)
  /\ Unwrap(forEachFut).sending
  /\ LET f == Unwrap(forEachFut)
     IN  \E ok \in BOOLEAN :
           IF ok
           THEN /\ sent' = Append(sent, Unwrap(f.item))
                /\ trace' = Append(trace, Ev("delivered", f.m))
                /\ forEachFut' = AfterSend(f, ok)
           ELSE /\ sent' = sent
                /\ trace' = Append(trace, Ev("send_error", f.m))
                /\ forEachFut' = AfterSend(f, ok)
  /\ UNCHANGED << pc, result, streamEnded, committed, pulled, thenFut, stored >>
  /\ UNCHANGED buildVars
  /\ UNCHANGED envVars

\* ------------------------------------------------------- the environment
\* the ShutdownSignal resolves, at any moment of the run
ShutdownResolve ==
  /\ pc \in { "created", "running" }
  /\ ~ shutdown
  /\ shutdown' = TRUE
  /\ inFlightAtShutdown' =
       Some([ pulled |-> Len(pulled),
              busy |-> IsSome(thenFut) \/ IsSome(forEachFut) ])
  /\ UNCHANGED << pc, result, streamEnded, committed >>
  /\ UNCHANGED buildVars
  /\ UNCHANGED loopVars

\* the client's periodic commit (enable.auto.commit) of the stored
\* positions, every auto.commit.interval.ms
Flush ==
  /\ pc \in { "running", "done" }
  /\ Unwrap(clientConfig)["enable.auto.commit"] = "true"
  /\ committed # stored
  /\ committed' = stored
  /\ UNCHANGED << pc, result, streamEnded >>
  /\ UNCHANGED buildVars
  /\ UNCHANGED envVars
  /\ UNCHANGED loopVars

Next ==
  \/ CreateConsumer
  \/ RunSource
  \/ TakeUntilShutdown
  \/ StreamEnd
  \/ Pull
  \/ HandleMessage
  \/ StoreOffset
  \/ ForEachItem
  \/ SendComplete
  \/ ShutdownResolve
  \/ Flush

Spec == Init /\ [][Next]_vars

\* kafka_source up to its return, over every configuration
NextBuild == CreateConsumer

SpecBuild == InitBuild /\ [][NextBuild]_vars

\* ------------------------------------------------- the mapping on its own
\* the field names a configuration can give, some of them names of other
\* fields of the event
MapperConfigs ==
  { [ make_config EXCEPT !.key_field = k, !.topic_key = t, !.offset_key = o ] :
      k \in { default_key_field, "key", message_key, timestamp_key },
      t \in { default_topic_key, default_key_field },
      o \in { default_offset_key, default_partition_key } }

MapperPayloads == { None, Some(<< >>), Some(MyMessage), Some(<< InvalidByte >>) }

MapperKeys ==
  { None, Some(<< >>), Some(MyKey), Some(<< InvalidByte >>),
    Some(<< 107, InvalidByte >>) }

MapperTimestamps ==
  { None, Some(0), Some(TestTimestamp), Some(ChronoMaxMillis),
    Some(ChronoMaxMillis + 1), Some(ChronoMinMillis - 1) }

MapperItems ==
  { ErrItem } \cup
  { OkItem([ payload |-> b, key |-> k, timestamp |-> t ], p, o) :
      b \in MapperPayloads, k \in MapperKeys, t \in MapperTimestamps,
      p \in Partitions, o \in { 0, 1 } }

\* the loop right after it pulled its first item, lines 151-161
InitMapper ==
  /\ config \in MapperConfigs
  /\ clientConfig = ClientOptions(config)
  /\ pc = "running"
  /\ result = "pending"
  /\ shutdown = FALSE
  /\ streamEnded = FALSE
  /\ \E item \in MapperItems : pulled = << item >>
  /\ thenFut = Some([ m |-> 1, event |-> None ])
  /\ forEachFut = None
  /\ stored = [p \in Partitions |-> NoOffset]
  /\ committed = [p \in Partitions |-> NoOffset]
  /\ sent = << >>
  /\ trace = << >>
  /\ inFlightAtShutdown = None

NextMapper == HandleMessage

SpecMapper == InitMapper /\ [][NextMapper]_vars

\* ------------------------------------------------- reading of the history
Count(name, m) ==
  Cardinality({ i \in DOMAIN trace : trace[i] = Ev(name, m) })

HasPayload(m) == pulled[m].kind = "Ok" /\ IsSome(pulled[m].payload)

NoPayload(m) == pulled[m].kind = "Ok" /\ ~ IsSome(pulled[m].payload)

\* the events of the pipeline that carry the partition and offset of
\* message m
SentFor(m) ==
  { i \in DOMAIN sent :
      /\ pulled[m].kind = "Ok"
      /\ sent[i][config.partition_key] = Integer(pulled[m].partition)
      /\ sent[i][config.offset_key] = Integer(pulled[m].offset) }

Idle == thenFut = None /\ forEachFut = None

InitialPositions == [p \in Partitions |-> NoOffset]

\* message m has taken every step its content and the outcomes of its
\* calls give it
Finished(m) ==
  /\ IsSome(thenFut) => Unwrap(thenFut).m # m
  /\ IsSome(forEachFut) => Unwrap(forEachFut).m # m
  /\ IF pulled[m].kind = "Err"
     THEN Count("KafkaEventFailed", m) = 1
     ELSE /\ Count("KafkaEventReceived", m) = 1
          /\ HasPayload(m) =>
               /\ Count("store_offset", m) + Count("store_offset_failed", m) = 1
               /\ Count("store_offset", m) = 1 =>
                    /\ Count("send", m) = 1
                    /\ Count("delivered", m) + Count("send_error", m) = 1

StoppedForCause == pc = "done" => (shutdown \/ streamEnded) /\ result = "Ok"

\* ------------------------------------------------------------------- C1
\* C1: for every pulled message with a payload whose store_offset failed,
\* no send is ever started and no event of it reaches the pipeline, and
\* KafkaOffsetUpdateFailed is emitted exactly once for it.
C1_StoreFailureDropsRecord ==
  \A m \in DOMAIN pulled :
    (HasPayload(m) /\ Count("store_offset_failed", m) > 0) =>
      /\ Count("send", m) = 0
      /\ SentFor(m) = {}
      /\ Count("KafkaOffsetUpdateFailed", m) = 1
      /\ IsSome(forEachFut) /\ Unwrap(forEachFut).m = m =>
           ~ IsSome(Unwrap(forEachFut).item)

C1_Witness ==
  /\ pc = "done"
  /\ \E m \in DOMAIN pulled :
       HasPayload(m) /\ Count("store_offset_failed", m) = 1 /\ Finished(m)

\* ------------------------------------------------------------------- C2
\* C2: every message with a payload whose offset is at or below the stored
\* position of its partition has had its event accepted by the pipeline.
\* The message still in flight is left out, so that a violation is a
\* position that stays past an event the pipeline never got.
C2_AtLeastOnce ==
  \A m \in DOMAIN pulled :
    (HasPayload(m) /\ Finished(m)
       /\ pulled[m].offset <= stored[pulled[m].partition]) =>
      SentFor(m) # {}

\* ------------------------------------------------------------------- C3
\* C3: a message is sent at most once; after a failed send the event is
\* not sent again and never reaches the pipeline, the for_each future is
\* complete so that the loop polls the stream again, and the loop stops
\* only for shutdown or the end of the stream.
C3_SendFailureContinues ==
  \A m \in DOMAIN pulled :
    /\ Count("send", m) <= 1
    /\ Count("send_error", m) > 0 =>
         /\ Count("send", m) = 1
         /\ Count("send_error", m) = 1
         /\ SentFor(m) = {}
         /\ Count("delivered", m) = 0
         /\ Finished(m)
         /\ pc \in { "running", "done" }
         /\ StoppedForCause
         /\ (m = Len(pulled) /\ pc = "running") =>
              /\ Idle
              /\ shutdown \/ ENABLED StreamEnd
              /\ (~ shutdown /\ Len(pulled) < MaxMsgs) => ENABLED Pull

C3_Witness ==
  /\ Len(pulled) = 2
  /\ Count("send_error", 1) = 1
  /\ Count("delivered", 2) = 1

\* ------------------------------------------------------------------- C4
\* C4: Then and ForEach never hold a future at the same time, the future
\* one of them holds is for the last message pulled, and every message
\* pulled before it has finished all its steps.
C4_OneMessageAtATime ==
  /\ ~ (IsSome(thenFut) /\ IsSome(forEachFut))
  /\ IsSome(thenFut) => Unwrap(thenFut).m = Len(pulled)
  /\ IsSome(forEachFut) => Unwrap(forEachFut).m = Len(pulled)
  /\ \A m \in DOMAIN pulled : m < Len(pulled) => Finished(m)

C4_Witness ==
  /\ Len(pulled) = 2
  /\ Count("delivered", 1) = 1
  /\ IsSome(forEachFut)
  /\ Unwrap(forEachFut).sending

\* ------------------------------------------------------------------- C5
\* C5: when the signal resolved while a message was in flight, the loop
\* cannot stop before that message has finished its steps, the steps stay
\* enabled, no further message is pulled, and once the message is
\* finished the only step of the loop is to stop with Ok.
C5_DrainOnShutdown ==
  (IsSome(inFlightAtShutdown) /\ Unwrap(inFlightAtShutdown).busy) =>
    LET m == Unwrap(inFlightAtShutdown).pulled
    IN  /\ Len(pulled) = m
        /\ pc \in { "running", "done" }
        /\ pc = "done" => Finished(m) /\ result = "Ok"
        /\ (pc = "running" /\ ~ Idle) =>
             /\ ~ ENABLED TakeUntilShutdown
             /\ \/ ENABLED HandleMessage
                \/ ENABLED StoreOffset
                \/ ENABLED ForEachItem
                \/ ENABLED SendComplete
        /\ (pc = "running" /\ Idle) =>
             /\ Finished(m)
             /\ ENABLED TakeUntilShutdown
             /\ ~ ENABLED Pull
             /\ ~ ENABLED StreamEnd

C5_Witness ==
  /\ pc = "done"
  /\ IsSome(inFlightAtShutdown)
  /\ Unwrap(inFlightAtShutdown).busy
  /\ Count("delivered", Unwrap(inFlightAtShutdown).pulled) = 1

\* ------------------------------------------------------------------- C6
\* C6: when the signal resolved before any message was pulled, no message
\* is pulled afterwards, no offset is stored, nothing is sent, the loop
\* can only stop, and it stops with Ok.
C6_ShutdownBeforeAnyMessage ==
  (IsSome(inFlightAtShutdown) /\ Unwrap(inFlightAtShutdown).pulled = 0) =>
    /\ pulled = << >>
    /\ trace = << >>
    /\ sent = << >>
    /\ stored = InitialPositions
    /\ committed = InitialPositions
    /\ pc = "running" => ENABLED TakeUntilShutdown /\ ~ ENABLED Pull
    /\ pc = "done" => result = "Ok"

C6_Witness ==
  /\ pc = "done"
  /\ result = "Ok"
  /\ IsSome(inFlightAtShutdown)
  /\ Unwrap(inFlightAtShutdown).pulled = 0
  /\ ~ streamEnded

\* ------------------------------------------------------------------- C7
\* C7: the loop is stopped only when the stream has ended or the signal
\* has resolved, with nothing in flight, and its result is then Ok,
\* whatever failures the messages met.
C7_StopsOnlyForCause ==
  pc = "done" =>
    /\ shutdown \/ streamEnded
    /\ result = "Ok"
    /\ Idle
    /\ \A m \in DOMAIN pulled : Finished(m)

C7_Witness ==
  /\ pc = "done"
  /\ result = "Ok"
  /\ \E m \in DOMAIN pulled : Count("KafkaOffsetUpdateFailed", m) = 1
  /\ \E m \in DOMAIN pulled : Count("send_error", m) = 1

\* ------------------------------------------------------------------- C8
\* C8: for a message without payload no event is built, store_offset is
\* not called and the stored position is not its offset, nothing is sent,
\* no failure event is emitted, and the loop goes on.
C8_AbsentPayloadSkipped ==
  \A m \in DOMAIN pulled :
    NoPayload(m) =>
      /\ Count("store_offset", m) = 0
      /\ Count("store_offset_failed", m) = 0
      /\ stored[pulled[m].partition] # pulled[m].offset
      /\ Count("send", m) = 0
      /\ SentFor(m) = {}
      /\ Count("KafkaEventFailed", m) = 0
      /\ Count("KafkaOffsetUpdateFailed", m) = 0
      /\ Count("send_error", m) = 0
      /\ IsSome(thenFut) /\ Unwrap(thenFut).m = m =>
           ~ IsSome(Unwrap(thenFut).event)
      /\ IsSome(forEachFut) /\ Unwrap(forEachFut).m = m =>
           ~ IsSome(Unwrap(forEachFut).item)
      /\ StoppedForCause
      /\ (Finished(m) /\ m = Len(pulled) /\ pc = "running" /\ ~ shutdown
            /\ Len(pulled) < MaxMsgs) => ENABLED Pull

C8_Witness ==
  /\ Len(pulled) = 2
  /\ NoPayload(1)
  /\ Finished(1)
  /\ Count("delivered", 2) = 1

\* ------------------------------------------------------------------- C9
\* C9: when create or subscribe fails kafka_source returns an error and
\* nothing of the loop ever happens; an offset-reset value the client
\* rejects makes it fail; when it returns Ok nothing has been pulled yet.
NothingRan ==
  /\ pulled = << >>
  /\ trace = << >>
  /\ sent = << >>
  /\ Idle
  /\ stored = InitialPositions
  /\ committed = InitialPositions
  /\ ~ streamEnded

C9_StartupFailureIsFatal ==
  /\ pc = "failed" =>
       /\ result \in { "AuthError", "KafkaCreateError", "KafkaSubscribeError" }
       /\ NothingRan
  /\ result \in { "AuthError", "KafkaCreateError", "KafkaSubscribeError" } =>
       pc = "failed"
  /\ (IsSome(clientConfig) /\
      Unwrap(clientConfig)["auto.offset.reset"] \notin ValidAutoOffsetReset) =>
       pc = "failed" /\ result = "KafkaCreateError"
  /\ pc = "created" => result = "Ok" /\ NothingRan

C9_Witness ==
  /\ pc = "failed"
  /\ result = "KafkaCreateError"
  /\ config.auto_offset_reset = "incorrect-auto-offset-reset"

\* ------------------------------------------------------------------ C10
\* C10 as stated: whatever the configuration, the options create() is
\* called with have enable.auto.offset.store = false, enable.auto.commit =
\* true and auto.commit.interval.ms equal to commit_interval_ms.
PositionOptionsAsConfigured ==
  /\ Unwrap(clientConfig)["enable.auto.offset.store"] = "false"
  /\ Unwrap(clientConfig)["enable.auto.commit"] = "true"
  /\ Unwrap(clientConfig)["auto.commit.interval.ms"] =
       ToString(config.commit_interval_ms)

C10_PositionOptionsAlways ==
  IsSome(clientConfig) => PositionOptionsAsConfigured

PositionOptionKeys ==
  { "enable.auto.offset.store", "enable.auto.commit", "auto.commit.interval.ms" }

OverriddenKeys ==
  IF IsSome(config.librdkafka_options)
  THEN DOMAIN Unwrap(config.librdkafka_options)
  ELSE {}

\* C10 amended: the same, for every configuration whose librdkafka_options
\* name none of the three options.
C10_PositionOptionsUnlessOverridden ==
  (IsSome(clientConfig) /\ OverriddenKeys \cap PositionOptionKeys = {}) =>
    PositionOptionsAsConfigured

C10_Witness ==
  /\ pc = "created"
  /\ config.auth = "sasl"
  /\ OverriddenKeys = { "security.protocol" }
  /\ config.commit_interval_ms = 1000
  /\ Unwrap(clientConfig)["auto.commit.interval.ms"] = "1000"

\* ------------------------------------------------------------------ C11
\* C11: every key of librdkafka_options has the override's value in the
\* options create() is called with, whatever the defaults and the
\* authentication set for it, and every other key has the value the
\* defaults and the authentication gave it.
C11_OverridesAppliedLast ==
  IsSome(clientConfig) =>
    LET conf   == Unwrap(clientConfig)
        before == Unwrap(AuthApply(config.auth, DefaultOptions(config)))
    IN  /\ DOMAIN conf = (DOMAIN before) \cup OverriddenKeys
        /\ \A k \in OverriddenKeys :
             conf[k] = Unwrap(config.librdkafka_options)[k]
        /\ \A k \in (DOMAIN conf) \ OverriddenKeys : conf[k] = before[k]

C11_Witness ==
  /\ pc = "created"
  /\ config.auth = "sasl"
  /\ OverriddenKeys = { "client.id", "security.protocol" }
  /\ Unwrap(clientConfig)["security.protocol"] = "ssl"
  /\ Unwrap(clientConfig)["client.id"] = "custom"
  /\ Unwrap(clientConfig)["enable.auto.commit"] = "true"

\* ------------------------------------------------------------------ C12
EventBuilt == IsSome(thenFut) /\ IsSome(Unwrap(thenFut).event)

BuiltEvent == Unwrap(Unwrap(thenFut).event)

BuiltFrom == pulled[Unwrap(thenFut).m]

\* C12 as stated: the event built from a message with a payload has the
\* payload as body, topic, partition and offset under the configured
\* names, source type "kafka", and the key field always present: the
\* message key, or Null for a message without key.
C12_RecordFields ==
  EventBuilt =>
    /\ BuiltEvent[message_key] = Bytes(Unwrap(BuiltFrom.payload))
    /\ BuiltEvent[config.topic_key] = Bytes(BuiltFrom.topic)
    /\ BuiltEvent[config.partition_key] = Integer(BuiltFrom.partition)
    /\ BuiltEvent[config.offset_key] = Integer(BuiltFrom.offset)
    /\ BuiltEvent[source_type_key] = Bytes(SourceType)
    /\ config.key_field \in DOMAIN BuiltEvent
    /\ BuiltEvent[config.key_field] =
         (IF IsSome(BuiltFrom.key) THEN Bytes(Unwrap(BuiltFrom.key)) ELSE Null)

FieldNames(cfg) ==
  << message_key, timestamp_key, source_type_key, cfg.key_field,
     cfg.topic_key, cfg.partition_key, cfg.offset_key >>

FieldNamesDistinct(cfg) ==
  \A i, j \in DOMAIN FieldNames(cfg) :
    i # j => FieldNames(cfg)[i] # FieldNames(cfg)[j]

\* the key as a string: its bytes, every byte that is no UTF-8 replaced by
\* U+FFFD
DecodedKey(key) ==
  [ i \in DOMAIN key |-> IF key[i] < 128 THEN << key[i] >>
                         ELSE ReplacementCharacter ]

RECURSIVE Concat(_)
Concat(seqs) == IF seqs = << >> THEN << >> ELSE Head(seqs) \o Concat(Tail(seqs))

\* C12 amended: the same when the seven field names are pairwise
\* distinct, with the key field holding the key decoded as UTF-8 with
\* invalid sequences replaced by U+FFFD.
C12_RecordFieldsDistinctNames ==
  (EventBuilt /\ FieldNamesDistinct(config)) =>
    /\ IsSome(BuiltFrom.payload)
    /\ DOMAIN BuiltEvent =
         { FieldNames(config)[i] : i \in DOMAIN FieldNames(config) }
    /\ BuiltEvent[message_key] = Bytes(Unwrap(BuiltFrom.payload))
    /\ BuiltEvent[config.topic_key] = Bytes(BuiltFrom.topic)
    /\ BuiltEvent[config.partition_key] = Integer(BuiltFrom.partition)
    /\ BuiltEvent[config.offset_key] = Integer(BuiltFrom.offset)
    /\ BuiltEvent[source_type_key] = Bytes(SourceType)
    /\ BuiltEvent[config.key_field] =
         (IF IsSome(BuiltFrom.key)
          THEN Bytes(Concat(DecodedKey(Unwrap(BuiltFrom.key))))
          ELSE Null)

C12_Witness ==
  /\ EventBuilt
  /\ FieldNamesDistinct(config)
  /\ config.key_field = "key"
  /\ config.topic_key = default_key_field
  /\ BuiltFrom.key = Some(<< 107, InvalidByte >>)
  /\ BuiltEvent["key"] = Bytes(<< 107 >> \o ReplacementCharacter)
  /\ BuiltEvent[message_key] = Bytes(<< InvalidByte >>)

\* ------------------------------------------------------------------ C13
\* the readings of Utc::now made for message m
ClockReadings(m) ==
  { i \in DOMAIN trace : trace[i].ev = "Utc::now" /\ trace[i].m = m }

TimestampAsResolved ==
  LET ts == BuiltFrom.timestamp
  IN  IF IsSome(ts) /\ ChronoMinMillis <= Unwrap(ts)
                    /\ Unwrap(ts) <= ChronoMaxMillis
      THEN /\ BuiltEvent[timestamp_key] = Timestamp(Unwrap(ts))
           /\ ClockReadings(Unwrap(thenFut).m) = {}
      ELSE /\ Cardinality(ClockReadings(Unwrap(thenFut).m)) = 1
           /\ \A i \in ClockReadings(Unwrap(thenFut).m) :
                BuiltEvent[timestamp_key] = Timestamp(trace[i].now)

C14_StoreBeforeForward ==
  /\ \A i \in DOMAIN trace :
       trace[i].ev = "send" =>
         i > 1 /\ trace[i - 1] = Ev("store_offset", trace[i].m)
  /\ \A m \in DOMAIN pulled :
       (SentFor(m) # {} \/ Count("send", m) > 0) =>
         /\ Count("store_offset", m) = 1
         /\ Count("store_offset_failed", m) = 0
  /\ (IsSome(forEachFut) /\ IsSome(Unwrap(forEachFut).item)) =>
       Count("store_offset", Unwrap(forEachFut).m) = 1

C14_Witness ==
  /\ Len(pulled) = 2
  /\ Count("store_offset_failed", 1) = 1
  /\ IsSome(forEachFut)
  /\ Unwrap(forEachFut).sending
  /\ stored[pulled[2].partition] = pulled[2].offset

\* ------------------------------------------------------------------ C15
\* C15: once the signal has resolved no step pulls an item, and with no
\* message in flight no step stores an offset, sends or emits anything.
C15_ShutdownWinsTheRace ==
  [][ shutdown =>
        /\ pulled' = pulled
        /\ Idle => /\ stored' = stored
                   /\ sent' = sent
                   /\ trace' = trace
                   /\ thenFut' = None
                   /\ forEachFut' = None
                   /\ pc = "running" => pc' \in { "running", "done" } ]_vars

C15_Witness ==
  /\ pc = "done"
  /\ ~ streamEnded
  /\ IsSome(inFlightAtShutdown)
  /\ ~ Unwrap(inFlightAtShutdown).busy
  /\ Unwrap(inFlightAtShutdown).pulled = 1
  /\ Len(pulled) = 1
  /\ Len(pulled) < MaxMsgs

\* ------------------------------------------------------------------ C16
\* C16: for a transport error KafkaEventFailed is emitted once and
\* nothing else: no KafkaEventReceived, no store_offset, no send; the
\* positions move only by messages, and the loop goes on.
C16_TransportErrorSkipped ==
  /\ \A m \in DOMAIN pulled :
       pulled[m].kind = "Err" =>
         /\ Count("KafkaEventFailed", m) =
              (IF IsSome(thenFut) /\ Unwrap(thenFut).m = m THEN 0 ELSE 1)
         /\ Count("KafkaEventReceived", m) = 0
         /\ Count("store_offset", m) = 0
         /\ Count("store_offset_failed", m) = 0
         /\ Count("KafkaOffsetUpdateFailed", m) = 0
         /\ Count("send", m) = 0
         /\ Count("delivered", m) = 0
         /\ IsSome(forEachFut) /\ Unwrap(forEachFut).m = m =>
              ~ IsSome(Unwrap(forEachFut).item)
         /\ StoppedForCause
         /\ (Finished(m) /\ m = Len(pulled) /\ pc = "running" /\ ~ shutdown
               /\ Len(pulled) < MaxMsgs) => ENABLED Pull
  /\ (\A m \in DOMAIN pulled : pulled[m].kind = "Err") =>
       stored = InitialPositions /\ sent = << >>

C16_Witness ==
  /\ Len(pulled) = 2
  /\ pulled[1].kind = "Err"
  /\ Count("KafkaEventFailed", 1) = 1
  /\ Count("delivered", 2) = 1

\* ------------------------------------------------------------------ C17
\* C17: when the stream has ended the loop is stopped with Ok, without
\* the signal, with every pulled message finished; the end of the stream
\* is taken whenever no message is in flight, and only then.
C17_StreamEndStops ==
  /\ streamEnded =>
       /\ pc = "done"
       /\ result = "Ok"
       /\ ~ shutdown
       /\ Idle
       /\ \A m \in DOMAIN pulled : Finished(m)
  /\ (pc = "running" /\ Idle /\ ~ shutdown) => ENABLED StreamEnd
  /\ (pc = "running" /\ ~ Idle) => ~ ENABLED StreamEnd

C17_Witness ==
  /\ streamEnded
  /\ ~ shutdown
  /\ Len(pulled) = 2
  /\ Count("delivered", 2) = 1

\* ------------------------------------------------------------------ C18
IsSend(e) == e.ev = "send"

IsDelivered(e) == e.ev = "delivered"

\* C18: the sends are in the order of the pull and one per message at
\* most, the pipeline holds the events of the delivered messages in that
\* order, and a finished message was not sent exactly when it was a
\* transport error, had no payload, or its store_offset failed.
C18_NoReorderNoDuplicate ==
  LET sends     == SelectSeq(trace, IsSend)
      delivered == SelectSeq(trace, IsDelivered)
  IN  /\ \A i, j \in DOMAIN sends : i < j => sends[i].m < sends[j].m
      /\ \A i, j \in DOMAIN delivered :
           i < j => delivered[i].m < delivered[j].m
      /\ Len(sent) = Len(delivered)
      /\ \A i \in DOMAIN sent :
           /\ Count("send", delivered[i].m) = 1
           /\ SentFor(delivered[i].m) = { i }
      /\ \A m \in DOMAIN pulled :
           Finished(m) =>
             (Count("send", m) = 0 <=>
                \/ pulled[m].kind = "Err"
                \/ NoPayload(m)
                \/ Count("store_offset_failed", m) = 1)

C18_Witness ==
  /\ pc = "done"
  /\ Len(pulled) = 2
  /\ Len(sent) = 2
  /\ pulled[1].partition = 1
  /\ pulled[2].partition = 0

\* ------------------------------------------------------------------ C19
\* the messages of partition p whose store_offset succeeded
StoredMessages(p) ==
  { m \in DOMAIN pulled :
      /\ pulled[m].kind = "Ok"
      /\ pulled[m].partition = p
      /\ Count("store_offset", m) = 1 }

LastStoredOffset(p) ==
  IF StoredMessages(p) = {} THEN NoOffset
  ELSE pulled[CHOOSE m \in StoredMessages(p) :
                \A n \in StoredMessages(p) : n <= m].offset

\* C19: the stored position of a partition is always the offset of the
\* last pulled message of the partition whose store_offset succeeded, and
\* no step lowers it.
C19_PositionFollowsLastStore ==
  /\ [](\A p \in Partitions : stored[p] = LastStoredOffset(p))
  /\ [][\A p \in Partitions : stored'[p] >= stored[p]]_vars

C19_Witness ==
  /\ Len(pulled) = 2
  /\ pulled[1].kind = "Ok"
  /\ pulled[2].kind = "Ok"
  /\ pulled[1].partition = pulled[2].partition
  /\ HasPayload(1)
  /\ Count("store_offset_failed", 1) = 1
  /\ Count("store_offset", 2) = 1
  /\ stored[pulled[2].partition] = 1
====
